---- MODULE Spec2Model ----
(***************************************************************************)
(* Meeting-automation agent: the session store written by                  *)
(* fetch_and_process_url and read by analyze_mom_for_actions,              *)
(* create_jira_ticket, schedule_call, send_to_slack and send_email.        *)
(*                                                                         *)
(* Text is a sequence of tokens.  A token is an indivisible run of         *)
(* characters: the text that is searched (action items, titles) is spelled *)
(* one character per token, a message literal of the source is one token,  *)
(* and an f-string is the concatenation of its literals and its values.    *)
(* The value None is the record NoneValue; a string is [tag |-> "str"].    *)
(***************************************************************************)
EXTENDS Integers, Sequences, FiniteSets, TLC

VARIABLES session, env, call, ret, io

vars == <<session, env, call, ret, io>>

\* ------------------------------------------------------------------ bounds
MaxMoms == 2
MaxTextLen == 2

\* ------------------------------------------------------------------ text
\* The three-backtick code-fence marker, as one token.
Fence == "BACKTICKS"
Whitespace == {" ", "\n"}

UpperCase ==
  <<"A", "B", "C", "D", "E", "F", "G", "H", "I", "J", "K", "L", "M", "N", "O", "P", "Q",
    "R", "S", "T", "U", "V", "W", "X", "Y", "Z">>
LowerCase ==
  <<"a", "b", "c", "d", "e", "f", "g", "h", "i", "j", "k", "l", "m", "n", "o", "p", "q",
    "r", "s", "t", "u", "v", "w", "x", "y", "z">>

LowerOf ==
  [u \in {UpperCase[i] : i \in 1..Len(UpperCase)} |->
     LowerCase[CHOOSE i \in 1..Len(UpperCase) : UpperCase[i] = u]]

LowerTok(t) == IF t \in DOMAIN LowerOf THEN LowerOf[t] ELSE t

\* str.lower()
Lower(s) == [i \in 1..Len(s) |-> LowerTok(s[i])]

\* A token made of word characters (\w); the rest separate words.
IsWordTok(t) ==
  t \notin (Whitespace \cup {Fence, ",", ":", "\"", "{", "}", "[", "]", ".", "-", "'"})

MatchAt(s, pat, i) ==
  /\ i >= 1
  /\ i + Len(pat) - 1 <= Len(s)
  /\ SubSeq(s, i, i + Len(pat) - 1) = pat

\* Python's `pat in s` on strings.
Contains(s, pat) == \E i \in 1..(Len(s) + 1) : MatchAt(s, pat, i)

\* re.search(r'\b(p1|p2|...)\b', s, re.IGNORECASE): every alternative starts and
\* ends with a word character, so \b asks for a non-word neighbour or the end.
ReSearchWords(pats, s) ==
  LET folded == Lower(s)
  IN \E pat \in {Lower(p) : p \in pats} :
       \E i \in 1..Len(s) :
         /\ MatchAt(folded, pat, i)
         /\ (i = 1 \/ ~IsWordTok(s[i - 1]))
         /\ (i + Len(pat) - 1 = Len(s) \/ ~IsWordTok(s[i + Len(pat)]))

RECURSIVE LStrip(_)
LStrip(s) == IF s # <<>> /\ Head(s) \in Whitespace THEN LStrip(Tail(s)) ELSE s

RECURSIVE RStrip(_)
RStrip(s) ==
  IF s # <<>> /\ s[Len(s)] \in Whitespace THEN RStrip(SubSeq(s, 1, Len(s) - 1)) ELSE s

\* str.strip()
Strip(s) == RStrip(LStrip(s))

\* str.replace(pat, ""): every occurrence, left to right, without overlap.
RECURSIVE Remove(_, _)
Remove(s, pat) ==
  IF ~Contains(s, pat) THEN s
  ELSE LET i == CHOOSE i \in 1..Len(s) :
                  MatchAt(s, pat, i) /\ \A j \in 1..(i - 1) : ~MatchAt(s, pat, j)
       IN SubSeq(s, 1, i - 1) \o Remove(SubSeq(s, i + Len(pat), Len(s)), pat)

RECURSIVE Concat(_)
Concat(ss) == IF ss = <<>> THEN <<>> ELSE Head(ss) \o Concat(Tail(ss))

\* str.join
RECURSIVE Join(_, _)
Join(sep, parts) ==
  IF parts = <<>> THEN <<>>
  ELSE IF Len(parts) = 1 THEN Head(parts)
  ELSE Head(parts) \o sep \o Join(sep, Tail(parts))

\* The characters of the words used below.
Spell(w) ==
  CASE w = "jira" -> <<"j", "i", "r", "a">>
    [] w = "JIRA" -> <<"J", "I", "R", "A">>
    [] w = "Jira" -> <<"J", "i", "r", "a">>
    [] w = "ticket" -> <<"t", "i", "c", "k", "e", "t">>
    [] w = "create" -> <<"c", "r", "e", "a", "t", "e">>
    [] w = "Create" -> <<"C", "r", "e", "a", "t", "e">>
    [] w = "call" -> <<"c", "a", "l", "l">>
    [] w = "recall" -> <<"r", "e", "c", "a", "l", "l">>
    [] w = "meeting" -> <<"m", "e", "e", "t", "i", "n", "g">>
    [] w = "schedule" -> <<"s", "c", "h", "e", "d", "u", "l", "e">>
    [] w = "Schedule" -> <<"S", "c", "h", "e", "d", "u", "l", "e">>
    [] w = "invite" -> <<"i", "n", "v", "i", "t", "e">>
    [] w = "review" -> <<"r", "e", "v", "i", "e", "w">>
    [] w = "Review" -> <<"R", "e", "v", "i", "e", "w">>
    [] w = "a" -> <<"a">>
    [] w = "set" -> <<"s", "e", "t">>
    [] w = "up" -> <<"u", "p">>
    [] w = "gmeet" -> <<"g", "m", "e", "e", "t">>
    [] w = "calendar" -> <<"c", "a", "l", "e", "n", "d", "a", "r">>
    [] w = "json" -> <<"j", "s", "o", "n">>
    [] w = "Use" -> <<"U", "s", "e">>

\* The words of a phrase, one space between them.
Phrase(ws) == Join(<<" ">>, [i \in 1..Len(ws) |-> Spell(ws[i])])

\* ------------------------------------------------------------------ values
NoneValue == [tag |-> "None", text |-> <<>>]
Str(s) == [tag |-> "str", text |-> s]
Raised(e) == [tag |-> "raised", text |-> <<e>>]

\* dict.get(key, default)
Get(d, key, default) == IF key \in DOMAIN d THEN d[key] ELSE default

EmptyDict == [k \in {} |-> <<>>]

\* ------------------------------------------------------------------ session
HasMoms(s) == "moms" \in DOMAIN s /\ s["moms"] # <<>>

\* The first record instead of the last.
LatestMom_First(s) == s["moms"][1]["mom"]

\* session["moms"][-1]["mom"]
LatestMom(s) == s["moms"][Len(s["moms"])]["mom"]

\* ------------------------------------------------------------------ inputs
Urls == {"https://notes.example/a", "https://notes.example/b"}
Channels == {"C012345"}
Recipients == {"team@example.com"}

ItemCreateTicket ==
  ("action" :> Phrase(<<"Create", "ticket">>)) @@ ("owner" :> <<"Alice">>)
    @@ ("due_date" :> <<"2025-01-10">>)
ItemTicket == ("action" :> Phrase(<<"ticket">>))
ItemJira == ("action" :> Phrase(<<"JIRA">>)) @@ ("owner" :> <<"Bob">>)
ItemReview == ("action" :> Phrase(<<"Review">>)) @@ ("owner" :> <<"Carol">>)
ItemScheduleCall ==
  ("action" :> Phrase(<<"Schedule", "a", "call">>)) @@ ("owner" :> <<"Alice">>)
ItemMeeting == ("action" :> Phrase(<<"meeting">>)) @@ ("due_date" :> <<"2025-02-01">>)
ItemRecall == ("action" :> Phrase(<<"recall">>))
ItemJiraInvite == ("action" :> Phrase(<<"jira", "invite">>))

MomTicket ==
  ("title" :> <<"Sprint", " ", "sync">>) @@ ("summary" :> <<"Planned">>)
    @@ ("decisions" :> << <<"ship">> >>) @@ ("action_items" :> <<ItemCreateTicket>>)
MomTwoTickets == ("action_items" :> <<ItemTicket, ItemJira>>)
MomReview == ("title" :> <<"Retro">>) @@ ("action_items" :> <<ItemReview>>)
MomFence ==
  ("title" :> Spell("Use") \o <<" ", Fence>> \o Spell("json"))
    @@ ("action_items" :> <<ItemMeeting>>)
MomEmpty == ("title" :> <<"Standup">>) @@ ("action_items" :> <<>>)
MomBare == ("summary" :> <<"Nothing to do">>)
MomCalls == ("title" :> <<"Kickoff">>) @@ ("action_items" :> <<ItemMeeting, ItemScheduleCall>>)
MomMixed == ("summary" :> <<"Mixed">>) @@ ("action_items" :> <<ItemRecall, ItemJiraInvite>>)

\* The MoM payloads the model is asked to produce.
Payloads ==
  {MomTicket, MomTwoTickets, MomReview, MomFence, MomEmpty, MomBare, MomCalls, MomMixed}

\* Free-text summaries as the model returns them.
SummaryTexts == {<<"\n", "Recap", " ", "done", "\n">>, <<"Notes">>}

\* ------------------------------------------------------------------ environment
EnvVars ==
  {"JIRA_URL", "JIRA_USERNAME", "JIRA_API_TOKEN", "SENDER_EMAIL", "SENDER_PASSWORD",
   "SLACK_API_TOKEN", "SMTP_HOST", "SMTP_PORT", "SMTP_USERNAME", "SMTP_PASSWORD"}

FullEnv ==
  [k \in EnvVars |->
     CASE k = "JIRA_URL" -> <<"https://jira.example">>
       [] k = "SMTP_PORT" -> <<"4", "6", "5">>
       [] k = "SMTP_HOST" -> <<"smtp.example.com">>
       [] OTHER -> <<"secret">>]

Without(e, k) == [j \in (DOMAIN e) \ {k} |-> e[j]]

\* The configurations the ingestion runs are checked under.
SessionEnvs == {FullEnv, EmptyDict}

\* Every variable set, exactly one unset, none set, or SMTP_PORT not a number.
EnvConfigs ==
  {FullEnv, EmptyDict, [FullEnv EXCEPT !["SMTP_PORT"] = <<"s", "m", "t", "p">>]}
    \cup {Without(FullEnv, k) : k \in EnvVars}

\* os.environ.get(k): unset reads as None, which is falsy like the empty string.
Environ(e, k) == Get(e, k, <<>>)
Truthy(v) == v # <<>>

Digits == {"0", "1", "2", "3", "4", "5", "6", "7", "8", "9"}

\* int(v) succeeds: optional whitespace around an optional sign and decimal digits.
ParsesAsInt(v) ==
  LET body == Strip(v)
      digits == IF body # <<>> /\ Head(body) \in {"+", "-"} THEN Tail(body) ELSE body
  IN digits # <<>> /\ \A i \in 1..Len(digits) : digits[i] \in Digits

\* ------------------------------------------------------------------ classifier
NoMomAnalyzeMsg == "No Minutes of Meeting (MoM) found in the session to analyze."
NoActionItemsMsg == "No action items found in the latest MoM."
SuggestHeader == "Based on the latest MoM, I found the following potential actions:\n"
JiraSection == "\n- I can create JIRA tickets for the following items:\n"
ScheduleSection == "\n- I can schedule calls for the following items:\n"
NoActionableMsg ==
  "I analyzed the MoM but did not find any specific action items for creating JIRA tickets or scheduling calls."
SlackOffer == "\nI can also send the MoM to a Slack channel. What would you like to do?"

\* The bare word "ticket" counts as well.
IsJiraText_WithTicket(action_text) ==
  Contains(action_text, Spell("jira")) \/ Contains(action_text, Spell("ticket"))

\* line 40: "jira" in action_text or "create ticket" in action_text
IsJiraText(action_text) ==
  Contains(action_text, Spell("jira")) \/ Contains(action_text, Phrase(<<"create", "ticket">>))

\* line 42: "schedule" in action_text or "invite" in action_text or "call" in action_text
IsScheduleText(action_text) ==
  \/ Contains(action_text, Spell("schedule"))
  \/ Contains(action_text, Spell("invite"))
  \/ Contains(action_text, Spell("call"))

\* item.get("action", "").lower()
ActionText(item) == Lower(Get(item, "action", <<>>))

RECURSIVE JiraBucket(_)
JiraBucket(action_items) ==
  IF action_items = <<>> THEN <<>>
  ELSE (IF IsJiraText(ActionText(Head(action_items)))
          THEN <<Head(action_items)["action"]>> ELSE <<>>)
       \o JiraBucket(Tail(action_items))

RECURSIVE ScheduleBucket(_)
ScheduleBucket(action_items) ==
  IF action_items = <<>> THEN <<>>
  ELSE (IF IsScheduleText(ActionText(Head(action_items)))
          THEN <<Head(action_items)["action"]>> ELSE <<>>)
       \o ScheduleBucket(Tail(action_items))

\* f"  - '{item}'\n" for every item of a bucket
RECURSIVE ItemLines(_)
ItemLines(bucket) ==
  IF bucket = <<>> THEN <<>>
  ELSE <<"  - '">> \o Head(bucket) \o <<"'\n">> \o ItemLines(Tail(bucket))

\* The schedule section is an `elif` of the ticket section.
Suggestions_Elif(jira_items, schedule_items) ==
  (IF jira_items # <<>> THEN <<SuggestHeader, JiraSection>> \o ItemLines(jira_items)
   ELSE IF schedule_items # <<>>
     THEN <<SuggestHeader, ScheduleSection>> \o ItemLines(schedule_items)
   ELSE <<NoActionableMsg>>)
    \o <<SlackOffer>>

\* lines 45-63
Suggestions(jira_items, schedule_items) ==
  LET ticketPart == IF jira_items # <<>> THEN <<JiraSection>> \o ItemLines(jira_items) ELSE <<>>
      callPart ==
        IF schedule_items # <<>> THEN <<ScheduleSection>> \o ItemLines(schedule_items) ELSE <<>>
      found_actions == jira_items # <<>> \/ schedule_items # <<>>
  IN (IF found_actions THEN <<SuggestHeader>> \o ticketPart \o callPart ELSE <<NoActionableMsg>>)
       \o <<SlackOffer>>

analyze_mom_for_actions(s) ==
  IF ~HasMoms(s) THEN Str(<<NoMomAnalyzeMsg>>)
  ELSE LET action_items == Get(LatestMom(s), "action_items", <<>>)
       IN IF action_items = <<>> THEN Str(<<NoActionItemsMsg>>)
          ELSE Str(Suggestions(JiraBucket(action_items), ScheduleBucket(action_items)))

\* ------------------------------------------------------------------ results
\* What one invocation gives back: its return value and the external calls
\* (HTTP requests, SMTP connections, model calls) it issued, in order.
Result(r, calls) == [ret |-> r, io |-> calls]

\* ------------------------------------------------------------------ ticket executor
\* line 91: r'\b(Jira|JIRA|ticket|create ticket)\b'
JiraPatterns ==
  {Spell("Jira"), Spell("JIRA"), Spell("ticket"), Phrase(<<"create", "ticket">>)}

IsJiraAction(action_text) == ReSearchWords(JiraPatterns, action_text)

JiraConfigMsg == "Error: JIRA environment variables are not fully set."

\* The answers of the tracker to the POST: a 2xx with the issue key, a non-2xx
\* status (raise_for_status), a transport failure, or a 2xx whose body is not JSON:
\* response.json() then raises requests' JSONDecodeError, a RequestException from
\* requests 2.27 on and a plain ValueError before.
JiraResponses ==
  {[kind |-> "ok", key |-> <<"KAN-7">>], [kind |-> "http_error"], [kind |-> "conn_error"],
   [kind |-> "json_request_error"], [kind |-> "json_value_error"]}

\* lines 92-93: both are built from the lower-cased action_text
JiraSummary(action_text) == <<"Meeting Action: ">> \o action_text

JiraDescription(action_text, item) ==
  <<"Action from MOM:\n">> \o action_text \o <<"\n\nOwner: ">> \o Get(item, "owner", <<"N/A">>)
    \o <<"\nDue Date: ">> \o Get(item, "due_date", <<"N/A">>)

JiraPost(e, action_text, item) ==
  [kind |-> "POST",
   url |-> Environ(e, "JIRA_URL") \o <<"/rest/api/3/issue">>,
   project |-> "KAN",
   summary |-> JiraSummary(action_text),
   description |-> JiraDescription(action_text, item)]

\* lines 139-155: the try block around requests.post
JiraSubmit(e, resp) ==
  CASE resp.kind = "ok" ->
         Str(<<"Simulated JIRA ticket creation: Ticket ID '">> \o resp.key
               \o <<"', Ticket URL '">> \o Environ(e, "JIRA_URL") \o <<"/browse/">> \o resp.key
               \o <<"'">>)
    [] resp.kind \in {"http_error", "conn_error", "json_request_error"} ->
         Str(<<"Failed to create Jira ticket: ", resp.kind>>)
    [] OTHER -> Str(<<"An unexpected error occurred: ", resp.kind>>)

\* Only JIRA_URL is checked before the request is sent.
RECURSIVE JiraLoop_UrlOnly(_, _, _)
JiraLoop_UrlOnly(action_items, e, resp) ==
  IF action_items = <<>> THEN Result(NoneValue, <<>>)
  ELSE LET item == Head(action_items)
           action_text == ActionText(item)
       IN IF IsJiraAction(action_text)
            THEN IF ~Truthy(Environ(e, "JIRA_URL")) THEN Result(Str(<<JiraConfigMsg>>), <<>>)
                 ELSE Result(JiraSubmit(e, resp), <<JiraPost(e, action_text, item)>>)
            ELSE JiraLoop_UrlOnly(Tail(action_items), e, resp)

\* lines 89-155: the loop returns at the first matching item, whatever the outcome,
\* and falls off the end of the function (None) when no item matches.
RECURSIVE JiraLoop(_, _, _)
JiraLoop(action_items, e, resp) ==
  IF action_items = <<>> THEN Result(NoneValue, <<>>)
  ELSE LET item == Head(action_items)
           action_text == ActionText(item)
       IN IF IsJiraAction(action_text)
            THEN IF ~(Truthy(Environ(e, "JIRA_URL")) /\ Truthy(Environ(e, "JIRA_USERNAME"))
                        /\ Truthy(Environ(e, "JIRA_API_TOKEN")))
                   THEN Result(Str(<<JiraConfigMsg>>), <<>>)
                   ELSE Result(JiraSubmit(e, resp), <<JiraPost(e, action_text, item)>>)
            ELSE JiraLoop(Tail(action_items), e, resp)

create_jira_ticket(s, e, resp) ==
  IF ~HasMoms(s) THEN Result(Str(<<NoMomAnalyzeMsg>>), <<>>)
  ELSE LET action_items == Get(LatestMom(s), "action_items", <<>>)
       IN IF action_items = <<>> THEN Result(Str(<<NoActionItemsMsg>>), <<>>)
          ELSE JiraLoop(action_items, e, resp)

\* ------------------------------------------------------------------ call scheduling
\* line 177
SchedulePatterns ==
  {Phrase(<<"schedule", "a", "call">>), Phrase(<<"set", "up", "a", "meeting">>),
   Phrase(<<"gmeet", "invite">>), Phrase(<<"calendar", "invite">>), Spell("meeting")}

IsScheduleAction(action_text) == ReSearchWords(SchedulePatterns, action_text)

NoMomScheduleMsg == "Error: No MoM found in session to create a call from."
ScheduleConfigMsg == "Error: Email credentials not configured in environment variables."
InviteSentMsg ==
  "Meeting invite sent successfully via SMTP with an HTML body and calendar attachment."

\* How a mail submission ends: delivered, an smtplib.SMTPException (protocol or
\* authentication), or an OSError while connecting (refused, TLS).
SmtpOutcomes == {"sent", "smtp_error", "os_error"}

InviteConnection(e) ==
  [kind |-> "SMTP", host |-> <<"smtp.gmail.com">>, port |-> <<"4", "6", "5">>,
   login |-> Environ(e, "SENDER_EMAIL"), to |-> <<"abhishek.chauhan@neosalpha.com">>,
   subject |-> <<"Follow-up Meeting">>, body |-> <<"invite.ics">>]

\* lines 175-281: the first matching item decides; `except Exception` catches all.
RECURSIVE ScheduleLoop(_, _, _)
ScheduleLoop(action_items, e, outcome) ==
  IF action_items = <<>> THEN Result(NoneValue, <<>>)
  ELSE IF IsScheduleAction(ActionText(Head(action_items)))
    THEN IF ~Truthy(Environ(e, "SENDER_EMAIL")) \/ ~Truthy(Environ(e, "SENDER_PASSWORD"))
           THEN Result(Str(<<ScheduleConfigMsg>>), <<>>)
           ELSE Result(IF outcome = "sent" THEN Str(<<InviteSentMsg>>)
                       ELSE Str(<<"Failed to send email invite: ", outcome>>),
                       <<InviteConnection(e)>>)
    ELSE ScheduleLoop(Tail(action_items), e, outcome)

schedule_call(s, e, outcome) ==
  IF ~HasMoms(s) THEN Result(Str(<<NoMomScheduleMsg>>), <<>>)
  ELSE ScheduleLoop(Get(LatestMom(s), "action_items", <<>>), e, outcome)

\* ------------------------------------------------------------------ chat executor
SlackConfigMsg == "Error: SLACK_API_TOKEN environment variable not set."

\* lines 307-320
SlackText(mom_data) ==
  LET title == Get(mom_data, "title", <<"Meeting Minutes">>)
      summary == Get(mom_data, "summary", <<"No summary provided.">>)
      ds == Get(mom_data, "decisions", <<>>)
      as == Get(mom_data, "action_items", <<>>)
      decisions == Join(<<"\n">>, [i \in 1..Len(ds) |-> <<"- ">> \o ds[i]])
      action_items ==
        Join(<<"\n">>,
             [i \in 1..Len(as) |->
                <<"- *Action:* ">> \o Get(as[i], "action", <<"None">>)
                  \o <<"\n  - *Owner:* ">> \o Get(as[i], "owner", <<"N/A">>)
                  \o <<"\n  - *Due Date:* ">> \o Get(as[i], "due_date", <<"N/A">>)])
  IN <<"*Minutes of Meeting: ">> \o title \o <<"*\n\n", "*Summary*\n">> \o summary
       \o <<"\n\n", "*Decisions*\n">> \o decisions \o <<"\n\n", "*Action Items*\n">>
       \o action_items

\* The platform's answers: a 2xx with a JSON body carrying `ok` and, on failure,
\* `error`; a non-2xx status; a transport failure; a 2xx whose body is not JSON.
SlackErrors == {"channel_not_found", "not_in_channel"}

SlackResponses ==
  {[kind |-> "json", ok |-> TRUE, error |-> <<"None">>]}
    \cup {[kind |-> "json", ok |-> FALSE, error |-> <<x>>] : x \in SlackErrors \cup {"None"}}
    \cup {[kind |-> "http_error"], [kind |-> "conn_error"], [kind |-> "json_request_error"],
          [kind |-> "json_value_error"]}

\* Any 2xx counts as success.
SlackSubmit_StatusOnly(channel, resp) ==
  IF resp.kind = "json" THEN Str(<<"MOM successfully posted to Slack channel ", channel, ".">>)
  ELSE Str(<<"Failed to send message to Slack: ", resp.kind>>)

\* lines 332-342: only RequestException is caught
SlackSubmit(channel, resp) ==
  CASE resp.kind = "json" ->
         IF resp.ok THEN Str(<<"MOM successfully posted to Slack channel ", channel, ".">>)
         ELSE Str(<<"Failed to post to Slack: ">> \o resp.error)
    [] resp.kind \in {"http_error", "conn_error", "json_request_error"} ->
         Str(<<"Failed to send message to Slack: ", resp.kind>>)
    [] OTHER -> Raised(resp.kind)

send_to_slack(channel, s, e, resp) ==
  IF ~HasMoms(s) THEN Result(Str(<<NoMomAnalyzeMsg>>), <<>>)
  ELSE IF ~Truthy(Environ(e, "SLACK_API_TOKEN")) THEN Result(Str(<<SlackConfigMsg>>), <<>>)
  ELSE Result(SlackSubmit(channel, resp),
              <<[kind |-> "POST", url |-> <<"https://slack.com/api/chat.postMessage">>,
                 channel |-> channel, text |-> SlackText(LatestMom(s))]>>)

\* ------------------------------------------------------------------ email executor
NoMomEmailMsg == "Error: No Minutes of Meeting (MoM) found in the session."
SmtpConfigMsg ==
  "Error: SMTP environment variables (SMTP_HOST, SMTP_PORT, SMTP_USERNAME, SMTP_PASSWORD) are not set."
SmtpPortMsg == "Error: SMTP_PORT must be an integer."
EmailSentMsg == "Email sent successfully!"

\* lines 173-211: the rendered HTML, its fixed markup reduced to the tags around values
EmailHtml(mom_json) ==
  LET ds == Get(mom_json, "decisions", <<>>)
      as == Get(mom_json, "action_items", <<>>)
  IN <<"<h3>Summary</h3><p>">> \o Get(mom_json, "summary", <<"No summary provided.">>)
       \o <<"</p><h3>Decisions</h3><ul>">>
       \o Concat([i \in 1..Len(ds) |-> <<"<li>">> \o ds[i] \o <<"</li>">>])
       \o <<"</ul><h3>Action Items</h3><table>">>
       \o Concat([i \in 1..Len(as) |->
                    <<"<tr><td>">> \o Get(as[i], "action", <<"None">>) \o <<"</td><td>">>
                      \o Get(as[i], "owner", <<"None">>) \o <<"</td><td>">>
                      \o Get(as[i], "due_date", <<"TBD">>) \o <<"</td></tr>">>])
       \o <<"</table>">>

\* lines 216-222: only smtplib.SMTPException is caught
EmailSubmit(outcome) ==
  CASE outcome = "sent" -> Str(<<EmailSentMsg>>)
    [] outcome = "smtp_error" -> Str(<<"An error occurred while sending the email: ", outcome>>)
    [] OTHER -> Raised(outcome)

\* The configuration is read before the session is looked at.
send_email_ConfigFirst(to_email, s, e, outcome) ==
  IF ~(Truthy(Environ(e, "SMTP_HOST")) /\ Truthy(Environ(e, "SMTP_PORT"))
         /\ Truthy(Environ(e, "SMTP_USERNAME")) /\ Truthy(Environ(e, "SMTP_PASSWORD")))
    THEN Result(Str(<<SmtpConfigMsg>>), <<>>)
  ELSE IF ~HasMoms(s) THEN Result(Str(<<NoMomEmailMsg>>), <<>>)
  ELSE Result(EmailSubmit(outcome), <<[kind |-> "SMTP", host |-> Environ(e, "SMTP_HOST")]>>)

send_email(to_email, s, e, outcome) ==
  IF ~HasMoms(s) THEN Result(Str(<<NoMomEmailMsg>>), <<>>)
  ELSE IF ~(Truthy(Environ(e, "SMTP_HOST")) /\ Truthy(Environ(e, "SMTP_PORT"))
              /\ Truthy(Environ(e, "SMTP_USERNAME")) /\ Truthy(Environ(e, "SMTP_PASSWORD")))
    THEN Result(Str(<<SmtpConfigMsg>>), <<>>)
  ELSE IF ~ParsesAsInt(Environ(e, "SMTP_PORT")) THEN Result(Str(<<SmtpPortMsg>>), <<>>)
  ELSE Result(EmailSubmit(outcome),
              <<[kind |-> "SMTP", host |-> Environ(e, "SMTP_HOST"),
                 port |-> Strip(Environ(e, "SMTP_PORT")),
                 login |-> Environ(e, "SMTP_USERNAME"), to |-> <<to_email>>,
                 subject |-> <<"Minutes of Meeting: ">>
                               \o Get(LatestMom(s), "title", <<"Untitled Meeting">>),
                 body |-> EmailHtml(LatestMom(s))]>>)

\* ------------------------------------------------------------------ JSON
\* The model's reply is JSON text: the tokens { } [ ] , : and the double quote are
\* structure, and a string is the tokens between two double quotes.
DumpStr(str) == <<"\"">> \o str \o <<"\"">>

DumpStrList(l) == <<"[">> \o Join(<<",">>, [i \in 1..Len(l) |-> DumpStr(l[i])]) \o <<"]">>

ItemKeys == <<"action", "owner", "due_date">>
MomKeys == <<"title", "summary", "decisions", "action_items", "attendees">>

Present(keys, d) == SelectSeq(keys, LAMBDA k : k \in DOMAIN d)

DumpItem(item) ==
  LET ks == Present(ItemKeys, item)
  IN <<"{">>
       \o Join(<<",">>, [i \in 1..Len(ks) |-> DumpStr(<<ks[i]>>) \o <<":">> \o DumpStr(item[ks[i]])])
       \o <<"}">>

DumpItemList(l) == <<"[">> \o Join(<<",">>, [i \in 1..Len(l) |-> DumpItem(l[i])]) \o <<"]">>

\* The JSON text of a MoM payload.
Dumps(mom) ==
  LET ks == Present(MomKeys, mom)
      Value(k) ==
        CASE k \in {"title", "summary"} -> DumpStr(mom[k])
          [] k = "action_items" -> DumpItemList(mom[k])
          [] OTHER -> DumpStrList(mom[k])
  IN <<"{">> \o Join(<<",">>, [i \in 1..Len(ks) |-> DumpStr(<<ks[i]>>) \o <<":">> \o Value(ks[i])])
       \o <<"}">>

ParseFail == [ok |-> FALSE, val |-> <<>>, next |-> 0]
Parsed(v, n) == [ok |-> TRUE, val |-> v, next |-> n]

Tok(t, i) == IF i \in 1..Len(t) THEN t[i] ELSE "<eof>"

ParseString(t, i) ==
  IF Tok(t, i) = "\"" /\ \E j \in (i + 1)..Len(t) : t[j] = "\""
    THEN LET j == CHOOSE j \in (i + 1)..Len(t) :
                    t[j] = "\"" /\ \A k \in (i + 1)..(j - 1) : t[k] # "\""
         IN Parsed(SubSeq(t, i + 1, j - 1), j + 1)
    ELSE ParseFail

RECURSIVE ParseValue(_, _)
RECURSIVE ParseElems(_, _, _)
RECURSIVE ParseMembers(_, _, _)

ParseValue(t, i) ==
  CASE Tok(t, i) = "\"" -> ParseString(t, i)
    [] Tok(t, i) = "[" ->
         IF Tok(t, i + 1) = "]" THEN Parsed(<<>>, i + 2) ELSE ParseElems(t, i + 1, <<>>)
    [] Tok(t, i) = "{" ->
         IF Tok(t, i + 1) = "}" THEN Parsed(EmptyDict, i + 2)
         ELSE ParseMembers(t, i + 1, EmptyDict)
    [] OTHER -> ParseFail

ParseElems(t, i, acc) ==
  LET r == ParseValue(t, i)
  IN IF ~r.ok THEN ParseFail
     ELSE IF Tok(t, r.next) = "," THEN ParseElems(t, r.next + 1, Append(acc, r.val))
     ELSE IF Tok(t, r.next) = "]" THEN Parsed(Append(acc, r.val), r.next + 1)
     ELSE ParseFail

\* An object key is a one-token string here; a later duplicate key wins.
ParseMembers(t, i, acc) ==
  LET k == ParseString(t, i)
  IN IF ~k.ok \/ Len(k.val) # 1 \/ Tok(t, k.next) # ":" THEN ParseFail
     ELSE LET v == ParseValue(t, k.next + 1)
          IN IF ~v.ok THEN ParseFail
             ELSE LET acc2 == (k.val[1] :> v.val) @@ acc
                  IN IF Tok(t, v.next) = "," THEN ParseMembers(t, v.next + 1, acc2)
                     ELSE IF Tok(t, v.next) = "}" THEN Parsed(acc2, v.next + 1)
                     ELSE ParseFail

\* json.loads: whitespace around the document is skipped, trailing text is an error.
Loads(t) ==
  LET doc == Strip(t)
      r == ParseValue(doc, 1)
  IN IF r.ok /\ r.next = Len(doc) + 1 THEN r ELSE ParseFail

\* ------------------------------------------------------------------ ingestion
\* line 107: response.text.strip().replace("```json", "").replace("```", "")
StripFences(text) == Remove(Remove(Strip(text), <<Fence>> \o Spell("json")), <<Fence>>)

Fenced(text) == <<Fence>> \o Spell("json") \o <<"\n">> \o text \o <<"\n", Fence>>

DecodeErrorMsg == "Error: Failed to decode the MoM JSON from the model's response."
NoTextMsg == "Could not extract any text from the provided URL."

Transcript == <<"transcript">>

\* The payloads the ingestion runs draw from.
FetchPayloads == {MomTicket, MomFence}

\* What the second model call returns: the JSON of a payload, bare or inside a
\* code fence, or text that is no JSON document.
MomReplies ==
  {Dumps(p) : p \in FetchPayloads} \cup {Fenced(Dumps(p)) : p \in FetchPayloads}
    \cup {<<"Sorry">>, SubSeq(Dumps(MomTicket), 1, 4)}

\* The outcomes of one ingestion run, step by step: the GET, the content, the
\* first model call (its text, or a raise), the second model call.
FetchInputs ==
  {[get |-> g, content |-> <<>>, gen1 |-> "raise", summary |-> <<>>, gen2 |-> "raise",
    mom |-> <<>>] : g \in {"http_error", "conn_error", "ok"}}
    \cup {[get |-> "ok", content |-> Transcript, gen1 |-> "raise", summary |-> <<>>,
           gen2 |-> "raise", mom |-> <<>>]}
    \cup {[get |-> "ok", content |-> Transcript, gen1 |-> "text", summary |-> x,
           gen2 |-> "raise", mom |-> <<>>] : x \in SummaryTexts}
    \cup {[get |-> "ok", content |-> Transcript, gen1 |-> "text", summary |-> x[1],
           gen2 |-> "text", mom |-> x[2]] : x \in SummaryTexts \X MomReplies}

\* The new record replaces the list instead of extending it.
SaveToSession_Replace(s, url, summary, mom) ==
  ("summaries" :> <<[url |-> url, summary |-> summary]>>)
    @@ ("moms" :> <<[url |-> url, mom |-> mom]>>)

\* lines 113-120
SaveToSession(s, url, summary, mom) ==
  LET s1 == IF "summaries" \in DOMAIN s THEN s ELSE ("summaries" :> <<>>) @@ s
      s2 == [s1 EXCEPT !["summaries"] = Append(@, [url |-> url, summary |-> summary])]
      s3 == IF "moms" \in DOMAIN s2 THEN s2 ELSE ("moms" :> <<>>) @@ s2
  IN [s3 EXCEPT !["moms"] = Append(@, [url |-> url, mom |-> mom])]

Get1(url) == [kind |-> "GET", url |-> <<url>>]
Gen(n) == [kind |-> "MODEL", prompt |-> n]

Fetched(r, calls, s) == [ret |-> r, io |-> calls, session |-> s]

\* The summary record is saved as soon as the summary is there, before the MoM
\* reply is asked for and parsed.
fetch_and_process_url_SummaryFirst(url, s, in) ==
  IF in.get # "ok"
    THEN Fetched(Str(<<"Error: Failed to fetch the URL. Details: ", in.get>>), <<Get1(url)>>, s)
  ELSE IF in.content = <<>> THEN Fetched(Str(<<NoTextMsg>>), <<Get1(url)>>, s)
  ELSE IF in.gen1 = "raise"
    THEN Fetched(Str(<<"An unexpected error occurred: ", "summary">>), <<Get1(url), Gen(1)>>, s)
  ELSE LET s1 == IF "summaries" \in DOMAIN s THEN s ELSE ("summaries" :> <<>>) @@ s
           s2 == [s1 EXCEPT !["summaries"] =
                    Append(@, [url |-> url, summary |-> Strip(in.summary)])]
           mom == Loads(StripFences(in.mom))
       IN IF in.gen2 = "raise"
            THEN Fetched(Str(<<"An unexpected error occurred: ", "mom">>),
                         <<Get1(url), Gen(1), Gen(2)>>, s2)
          ELSE IF ~mom.ok
            THEN Fetched(Str(<<DecodeErrorMsg>>), <<Get1(url), Gen(1), Gen(2)>>, s2)
          ELSE LET s3 == IF "moms" \in DOMAIN s2 THEN s2 ELSE ("moms" :> <<>>) @@ s2
               IN Fetched(Str(<<"Summary and MoM of ", url,
                                " have been fetched and saved to session.">>),
                          <<Get1(url), Gen(1), Gen(2)>>,
                          [s3 EXCEPT !["moms"] = Append(@, [url |-> url, mom |-> mom.val])])

\* lines 58-132
fetch_and_process_url(url, s, in) ==
  IF in.get # "ok"
    THEN Fetched(Str(<<"Error: Failed to fetch the URL. Details: ", in.get>>), <<Get1(url)>>, s)
  ELSE IF in.content = <<>> THEN Fetched(Str(<<NoTextMsg>>), <<Get1(url)>>, s)
  ELSE IF in.gen1 = "raise"
    THEN Fetched(Str(<<"An unexpected error occurred: ", "summary">>), <<Get1(url), Gen(1)>>, s)
  ELSE IF in.gen2 = "raise"
    THEN Fetched(Str(<<"An unexpected error occurred: ", "mom">>),
                 <<Get1(url), Gen(1), Gen(2)>>, s)
  ELSE LET summary == Strip(in.summary)
           mom == Loads(StripFences(in.mom))
       IN IF ~mom.ok THEN Fetched(Str(<<DecodeErrorMsg>>), <<Get1(url), Gen(1), Gen(2)>>, s)
          ELSE Fetched(Str(<<"Summary and MoM of ", url,
                             " have been fetched and saved to session.">>),
                       <<Get1(url), Gen(1), Gen(2)>>,
                       SaveToSession(s, url, summary, mom.val))

\* ------------------------------------------------------------------ state machine
\* The agent shell runs one tool at a time (every tool is synchronous and blocking):
\* `call` is Idle between invocations, and names the tool and its inputs from the
\* moment it returns until the shell has taken the result.
Idle == [op |-> "none"]

NumMoms(s) == IF "moms" \in DOMAIN s THEN Len(s["moms"]) ELSE 0

\* One invocation of fetch_and_process_url by the agent shell.
Fetch ==
  /\ call = Idle
  /\ NumMoms(session) < MaxMoms
  /\ \E url \in Urls, in \in FetchInputs :
       LET r == fetch_and_process_url(url, session, in)
       IN /\ session' = r.session
          /\ call' = [op |-> "fetch_and_process_url", url |-> url, in |-> in]
          /\ ret' = r.ret
          /\ io' = r.io
  /\ UNCHANGED env

\* The classifier keeps its two buckets in the session.
Analyze_Caches ==
  /\ call = Idle
  /\ call' = [op |-> "analyze_mom_for_actions"]
  /\ ret' = analyze_mom_for_actions(session)
  /\ io' = <<>>
  /\ session' =
       IF HasMoms(session)
         THEN ("suggested" :> JiraBucket(Get(LatestMom(session), "action_items", <<>>))) @@ session
         ELSE session
  /\ UNCHANGED env

Analyze ==
  /\ call = Idle
  /\ call' = [op |-> "analyze_mom_for_actions"]
  /\ ret' = analyze_mom_for_actions(session)
  /\ io' = <<>>
  /\ UNCHANGED <<session, env>>

CreateJiraTicket ==
  /\ call = Idle
  /\ \E resp \in JiraResponses :
       LET r == create_jira_ticket(session, env, resp)
       IN /\ call' = [op |-> "create_jira_ticket", resp |-> resp]
          /\ ret' = r.ret
          /\ io' = r.io
  /\ UNCHANGED <<session, env>>

ScheduleCall ==
  /\ call = Idle
  /\ \E outcome \in SmtpOutcomes :
       LET r == schedule_call(session, env, outcome)
       IN /\ call' = [op |-> "schedule_call", outcome |-> outcome]
          /\ ret' = r.ret
          /\ io' = r.io
  /\ UNCHANGED <<session, env>>

SendToSlack ==
  /\ call = Idle
  /\ \E channel \in Channels, resp \in SlackResponses :
       LET r == send_to_slack(channel, session, env, resp)
       IN /\ call' = [op |-> "send_to_slack", channel |-> channel, resp |-> resp]
          /\ ret' = r.ret
          /\ io' = r.io
  /\ UNCHANGED <<session, env>>

SendEmail ==
  /\ call = Idle
  /\ \E to_email \in Recipients, outcome \in SmtpOutcomes :
       LET r == send_email(to_email, session, env, outcome)
       IN /\ call' = [op |-> "send_email", to_email |-> to_email, outcome |-> outcome]
          /\ ret' = r.ret
          /\ io' = r.io
  /\ UNCHANGED <<session, env>>

\* The shell takes the result; the next tool can be invoked.
Return ==
  /\ call # Idle
  /\ call' = Idle
  /\ ret' = NoneValue
  /\ io' = <<>>
  /\ UNCHANGED <<session, env>>

\* A conversation starts with the empty session the framework creates.
Init ==
  /\ session = EmptyDict
  /\ env \in SessionEnvs
  /\ call = Idle
  /\ ret = NoneValue
  /\ io = <<>>

\* ------------------------------------------------------------------ supplied sessions
\* The words action texts are made of, and the texts of at most MaxTextLen words.
WordPool ==
  {"JIRA", "ticket", "create", "call", "recall", "meeting", "schedule", "invite", "review"}

RECURSIVE Phrases(_)
Phrases(n) ==
  IF n = 0 THEN {<<>>}
  ELSE Phrases(n - 1) \cup {Append(p, w) : p \in Phrases(n - 1), w \in WordPool}

ActionTexts == {Phrase(p) : p \in Phrases(MaxTextLen)}

\* A MoM whose only action item has the given text.
TextMom(text) == ("action_items" :> <<("action" :> text) @@ ("owner" :> <<"Dana">>)>>)

\* Sessions as the framework hands them over: without `moms`, with an empty `moms`
\* sequence, or holding one ingested MoM.
SuppliedSessions ==
  {EmptyDict, ("moms" :> <<>>), ("moms" :> <<>>) @@ ("summaries" :> <<>>)}
    \cup {SaveToSession(EmptyDict, "https://notes.example/a", <<"Recap">>, m) :
            m \in Payloads \cup {TextMom(t) : t \in ActionTexts}}

InitSupplied ==
  /\ session \in SuppliedSessions
  /\ env \in EnvConfigs
  /\ call = Idle
  /\ ret = NoneValue
  /\ io = <<>>

Consume == Analyze \/ CreateJiraTicket \/ ScheduleCall \/ SendToSlack \/ SendEmail

Next == Fetch \/ Consume \/ Return

Spec == Init /\ [][Next]_vars

NextSupplied == Consume \/ Return

\* The consumers, on every supplied session under every configuration.
SpecSupplied == InitSupplied /\ [][NextSupplied]_vars

\* ------------------------------------------------------------------ claims
Consumers ==
  {"analyze_mom_for_actions", "create_jira_ticket", "schedule_call", "send_to_slack",
   "send_email"}
Executors == Consumers \ {"analyze_mom_for_actions"}
Tools == Consumers \cup {"fetch_and_process_url"}

\* `moms` as a sequence, empty when the key is absent.
Moms(s) == IF "moms" \in DOMAIN s THEN s["moms"] ELSE <<>>
Summaries(s) == IF "summaries" \in DOMAIN s THEN s["summaries"] ELSE <<>>

\* The action items of the latest MoM.
LatestItems == Get(LatestMom(session), "action_items", <<>>)

NoMomMessage(op) ==
  CASE op = "schedule_call" -> NoMomScheduleMsg
    [] op = "send_email" -> NoMomEmailMsg
    [] OTHER -> NoMomAnalyzeMsg

\* C1: a consumer invoked on a session whose `moms` is absent or empty returns
\* its "no MoM found" message and issues no external call, whatever the
\* environment holds.
C1_NoMomNoExternalCall ==
  (call.op \in Consumers /\ ~HasMoms(session)) =>
    (ret = Str(<<NoMomMessage(call.op)>>) /\ io = <<>>)

\* An executor has returned on an empty `moms` sequence although its whole
\* configuration is set.
C1_Witness ==
  /\ call.op = "send_email"
  /\ "moms" \in DOMAIN session
  /\ session["moms"] = <<>>
  /\ env = FullEnv

\* C2: every tool invocation ends by returning a string.
C2_AlwaysReturnsString == (call.op \in Tools) => ret.tag = "str"

\* The return value of a successful ingestion.
FetchSucceeded(c, r) ==
  /\ c.op = "fetch_and_process_url"
  /\ r = Str(<<"Summary and MoM of ", c.url, " have been fetched and saved to session.">>)

\* C3: `moms` is absent or non-empty in every state; a successful
\* fetch_and_process_url adds exactly one record at the end of `moms` and every
\* other step leaves `moms` as it is, so earlier records stay unchanged and in place.
C3_MomsAppendOnly ==
  /\ []("moms" \in DOMAIN session => session["moms"] # <<>>)
  /\ [][IF FetchSucceeded(call', ret')
          THEN /\ Len(Moms(session')) = Len(Moms(session)) + 1
               /\ SubSeq(Moms(session'), 1, Len(Moms(session))) = Moms(session)
               /\ Moms(session')[Len(Moms(session'))]["url"] = call'.url
          ELSE Moms(session') = Moms(session)]_vars

\* A second successful ingestion has just been appended after a first one.
C3_Witness == FetchSucceeded(call, ret) /\ Len(Moms(session)) = 2

\* The ingestion ran with a fetch that succeeded, a free-text summary and the
\* JSON of payload p, bare or inside a code fence.
IngestedPayload(p) ==
  /\ call.op = "fetch_and_process_url"
  /\ call.in.get = "ok"
  /\ call.in.content # <<>>
  /\ call.in.gen1 = "text"
  /\ call.in.gen2 = "text"
  /\ call.in.mom \in {Dumps(p), Fenced(Dumps(p))}

\* C4: after an ingestion whose second model reply is the JSON of payload P,
\* the last MoM record holds P and the url, and the last summary record holds
\* the stripped summary and the url.
C4_RoundTrip ==
  \A p \in FetchPayloads :
    IngestedPayload(p) =>
      /\ Moms(session) # <<>>
      /\ Moms(session)[Len(Moms(session))] = [url |-> call.url, mom |-> p]
      /\ Summaries(session) # <<>>
      /\ Summaries(session)[Len(Summaries(session))]
           = [url |-> call.url, summary |-> Strip(call.in.summary)]

JiraConfigured(e) ==
  Truthy(Environ(e, "JIRA_URL")) /\ Truthy(Environ(e, "JIRA_USERNAME"))
    /\ Truthy(Environ(e, "JIRA_API_TOKEN"))

\* The action items of the latest MoM that match the ticket executor's pattern.
TicketMatches == SelectSeq(LatestItems, LAMBDA it : IsJiraAction(ActionText(it)))

\* C5: with valid JIRA configuration and a successful response, one invocation
\* of create_jira_ticket issues one POST for each matching action item, in
\* list order.
C5_OnePostPerMatch ==
  (call.op = "create_jira_ticket" /\ HasMoms(session) /\ JiraConfigured(env)
     /\ call.resp.kind = "ok") =>
    /\ Len(io) = Len(TicketMatches)
    /\ \A i \in 1..Len(io) :
         /\ io[i].kind = "POST"
         /\ io[i].description = JiraDescription(ActionText(TicketMatches[i]), TicketMatches[i])

\* The action items of the latest MoM that match the scheduling pattern.
ScheduleMatches == SelectSeq(LatestItems, LAMBDA it : IsScheduleAction(ActionText(it)))

\* Some environment variable the executor requires is unset (or SMTP_PORT is
\* no integer).
MissingConfig(op, e) ==
  CASE op = "create_jira_ticket" ->
         \E k \in {"JIRA_URL", "JIRA_USERNAME", "JIRA_API_TOKEN"} : k \notin DOMAIN e
    [] op = "schedule_call" -> \E k \in {"SENDER_EMAIL", "SENDER_PASSWORD"} : k \notin DOMAIN e
    [] op = "send_to_slack" -> "SLACK_API_TOKEN" \notin DOMAIN e
    [] op = "send_email" ->
         \/ \E k \in {"SMTP_HOST", "SMTP_PORT", "SMTP_USERNAME", "SMTP_PASSWORD"} :
              k \notin DOMAIN e
         \/ ~ParsesAsInt(e["SMTP_PORT"])
    [] OTHER -> FALSE

ConfigMessages(op) ==
  CASE op = "create_jira_ticket" -> {JiraConfigMsg}
    [] op = "schedule_call" -> {ScheduleConfigMsg}
    [] op = "send_to_slack" -> {SlackConfigMsg}
    [] op = "send_email" -> {SmtpConfigMsg, SmtpPortMsg}
    [] OTHER -> {}

ReturnsConfigError == \E m \in ConfigMessages(call.op) : ret = Str(<<m>>)

\* The executor gets as far as reading its configuration: the ticket and the
\* scheduling executor read it only for an action item that matches their pattern.
ReadsConfig(op) ==
  CASE op = "create_jira_ticket" -> TicketMatches # <<>>
    [] op = "schedule_call" -> ScheduleMatches # <<>>
    [] OTHER -> TRUE

\* C6 as stated: with a latest MoM and a required variable unset, the executor
\* returns a configuration-error message and issues no external call.
C6_ConfigErrorAlways ==
  (call.op \in Executors /\ HasMoms(session) /\ MissingConfig(call.op, env)) =>
    (io = <<>> /\ ReturnsConfigError)

\* C6 as amended: with a latest MoM and a required variable unset, the executor
\* issues no HTTP request and opens no SMTP connection; send_to_slack and
\* send_email return a configuration-error message, and create_jira_ticket and
\* schedule_call return one when the latest MoM has an action item matching
\* their pattern (without one they return before the configuration is read).
C6_ConfigCheckedBeforeNetwork ==
  (call.op \in Executors /\ HasMoms(session) /\ MissingConfig(call.op, env)) =>
    (io = <<>> /\ (ReadsConfig(call.op) => ReturnsConfigError))

\* The ticket executor met a matching item with the API token unset.
C6_Witness ==
  /\ call.op = "create_jira_ticket"
  /\ HasMoms(session)
  /\ env = Without(FullEnv, "JIRA_API_TOKEN")
  /\ TicketMatches # <<>>
  /\ ret = Str(<<JiraConfigMsg>>)

\* The lines of one section of the classifier's answer: what follows the section
\* header up to the next section header or the closing offer.
SectionBody(text, hdr) ==
  IF \A i \in 1..Len(text) : text[i] # hdr THEN <<>>
  ELSE LET i == CHOOSE i \in 1..Len(text) : text[i] = hdr
           j == CHOOSE j \in (i + 1)..(Len(text) + 1) :
                  /\ j = Len(text) + 1 \/ text[j] \in {JiraSection, ScheduleSection, SlackOffer}
                  /\ \A k \in (i + 1)..(j - 1) :
                       text[k] \notin {JiraSection, ScheduleSection, SlackOffer}
       IN SubSeq(text, i + 1, j - 1)

Line(action) == <<"  - '">> \o action \o <<"'\n">>

\* The classifier's answer lists the item under the section.
Listed(hdr, item) == Contains(SectionBody(ret.text, hdr), Line(item["action"]))

ContainsAny(text, tokens) == \E t \in tokens : Contains(text, t)

\* The tokens the specification names, and the tokens the classifier tests.
NamedTicketTokens == {Spell("jira"), Phrase(<<"create", "ticket">>), Spell("ticket")}
NamedScheduleTokens ==
  {Spell("schedule"), Spell("invite"), Spell("call"), Spell("meeting"),
   Phrase(<<"set", "up", "a", "meeting">>), Phrase(<<"calendar", "invite">>)}
TestedTicketTokens == {Spell("jira"), Phrase(<<"create", "ticket">>)}
TestedScheduleTokens == {Spell("schedule"), Spell("invite"), Spell("call")}

Classified(ticketTokens, scheduleTokens) ==
  (call.op = "analyze_mom_for_actions" /\ HasMoms(session) /\ LatestItems # <<>>) =>
    \A i \in 1..Len(LatestItems) :
      LET item == LatestItems[i]
      IN "action" \in DOMAIN item =>
           /\ Listed(JiraSection, item) <=> ContainsAny(Lower(item["action"]), ticketTokens)
           /\ Listed(ScheduleSection, item)
                <=> ContainsAny(Lower(item["action"]), scheduleTokens)

\* C7 as stated: an item is in the ticket bucket exactly when its lower-cased
\* text contains jira, create ticket or ticket, and in the schedule bucket exactly
\* when it contains schedule, invite, call, meeting, set up a meeting or
\* calendar invite.
C7_NamedTokens == Classified(NamedTicketTokens, NamedScheduleTokens)

\* C7 as amended: an item is in the ticket bucket exactly when its lower-cased
\* text contains jira or create ticket, and in the schedule bucket exactly when
\* it contains schedule, invite or call; ticket alone and meeting alone put an
\* item in neither bucket.
C7_TestedTokens == Classified(TestedTicketTokens, TestedScheduleTokens)

\* The classifier found nothing actionable in an item whose text is "ticket".
C7_Witness ==
  /\ call.op = "analyze_mom_for_actions"
  /\ HasMoms(session)
  /\ LatestMom(session) = TextMom(Spell("ticket"))
  /\ ret.text[1] = NoActionableMsg

\* The two buckets of the latest MoM, in list order.
TicketBucket == SelectSeq(LatestItems, LAMBDA it : IsJiraText(ActionText(it)))
ScheduleBucketOfLatest == SelectSeq(LatestItems, LAMBDA it : IsScheduleText(ActionText(it)))

Lines(bucket) == Concat([i \in 1..Len(bucket) |-> Line(bucket[i]["action"])])

HasToken(text, t) == \E i \in 1..Len(text) : text[i] = t

\* C8: for a non-empty action-item list the answer holds the ticket section iff
\* the ticket bucket is non-empty and the schedule section iff the schedule
\* bucket is non-empty; each section lists its items in list order (an item of
\* both buckets in both); with both buckets empty the answer is the "no
\* actionable items" message, followed only by the closing Slack offer, and
\* holds no listing.
C8_SectionsFollowBuckets ==
  (call.op = "analyze_mom_for_actions" /\ HasMoms(session) /\ LatestItems # <<>>) =>
    /\ ret.tag = "str"
    /\ HasToken(ret.text, JiraSection) <=> TicketBucket # <<>>
    /\ HasToken(ret.text, ScheduleSection) <=> ScheduleBucketOfLatest # <<>>
    /\ SectionBody(ret.text, JiraSection) = Lines(TicketBucket)
    /\ SectionBody(ret.text, ScheduleSection) = Lines(ScheduleBucketOfLatest)
    /\ IF TicketBucket = <<>> /\ ScheduleBucketOfLatest = <<>>
         THEN ret.text = <<NoActionableMsg, SlackOffer>>
         ELSE ret.text[1] = SuggestHeader /\ ~HasToken(ret.text, NoActionableMsg)

\* The classifier answered for a list with an item of both buckets.
C8_Witness ==
  /\ call.op = "analyze_mom_for_actions"
  /\ HasMoms(session)
  /\ LatestMom(session) = MomMixed
  /\ Listed(JiraSection, ItemJiraInvite)
  /\ Listed(ScheduleSection, ItemJiraInvite)

\* C9: for a latest MoM with a single matching item and valid configuration,
\* create_jira_ticket issues exactly one POST whose summary contains the action
\* text as stored in the MoM and whose description contains "Owner: <owner>"
\* and the due date (each "N/A" when missing); a non-success status gives a
\* failure message, not a raised fault.
C9_TicketCarriesStoredText ==
  (call.op = "create_jira_ticket" /\ HasMoms(session) /\ JiraConfigured(env)
     /\ Len(TicketMatches) = 1) =>
    /\ Len(io) = 1
    /\ io[1].kind = "POST"
    /\ Contains(io[1].summary, TicketMatches[1]["action"])
    /\ Contains(io[1].description, <<"\n\nOwner: ">> \o Get(TicketMatches[1], "owner", <<"N/A">>))
    /\ Contains(io[1].description,
                <<"\nDue Date: ">> \o Get(TicketMatches[1], "due_date", <<"N/A">>))
    /\ call.resp.kind = "http_error" =>
         (ret.tag = "str" /\ ret.text[1] = "Failed to create Jira ticket: ")

\* C10: for a response with a success HTTP status, send_to_slack returns the
\* success string with the channel identifier iff the body's `ok` is true, and
\* otherwise a failure string that holds the reported `error` value.
C10_OkFlagDecides ==
  (call.op = "send_to_slack" /\ HasMoms(session)
     /\ Truthy(Environ(env, "SLACK_API_TOKEN")) /\ call.resp.kind = "json") =>
    /\ ret.tag = "str"
    /\ IF call.resp.ok
         THEN /\ ret.text[1] = "MOM successfully posted to Slack channel "
              /\ Contains(ret.text, <<call.channel>>)
         ELSE /\ ret.text[1] = "Failed to post to Slack: "
              /\ Contains(ret.text, call.resp.error)

\* The platform answered a 2xx with ok false and channel_not_found.
C10_Witness ==
  /\ call.op = "send_to_slack"
  /\ HasMoms(session)
  /\ call.resp = [kind |-> "json", ok |-> FALSE, error |-> <<"channel_not_found">>]
  /\ Contains(ret.text, <<"channel_not_found">>)
  /\ io # <<>>

SmtpConfigured(e) ==
  /\ \A k \in {"SMTP_HOST", "SMTP_PORT", "SMTP_USERNAME", "SMTP_PASSWORD"} :
       Truthy(Environ(e, k))
  /\ ParsesAsInt(Environ(e, "SMTP_PORT"))

\* C11: with a latest MoM and complete SMTP configuration, send_email ends in a
\* returned string, the success message or the failure message, for every
\* outcome of the mail submission: delivered, SMTP protocol or authentication
\* error, or a socket/TLS failure while connecting.
C11_EmailNeverRaises ==
  (call.op = "send_email" /\ HasMoms(session) /\ SmtpConfigured(env)) =>
    /\ ret.tag = "str"
    /\ ret.text[1] \in {EmailSentMsg, "An error occurred while sending the email: "}

\* C12: an invocation of analyze_mom_for_actions, create_jira_ticket,
\* schedule_call, send_to_slack or send_email leaves every key of the session
\* as it was, whatever its outcome; the session changes only in a step in which
\* fetch_and_process_url succeeds.
C12_ConsumersReadOnly ==
  [][/\ call'.op \in Consumers => session' = session
     /\ session' # session => FetchSucceeded(call', ret')]_vars

\* The ticket executor has come back from a failed POST on a session that holds
\* two ingested MoMs and their summaries.
C12_Witness ==
  /\ call.op = "create_jira_ticket"
  /\ call.resp.kind = "http_error"
  /\ io # <<>>
  /\ Len(Moms(session)) = 2
  /\ Len(Summaries(session)) = 2

\* What the invocation recorded in c gives on session s under environment e.
Invoke(c, s, e) ==
  CASE c.op = "analyze_mom_for_actions" -> Result(analyze_mom_for_actions(s), <<>>)
    [] c.op = "create_jira_ticket" -> create_jira_ticket(s, e, c.resp)
    [] c.op = "schedule_call" -> schedule_call(s, e, c.outcome)
    [] c.op = "send_to_slack" -> send_to_slack(c.channel, s, e, c.resp)
    [] c.op = "send_email" -> send_email(c.to_email, s, e, c.outcome)

\* A session that holds nothing but the last MoM record of s.
OnlyLatest(s) == ("moms" :> <<s["moms"][Len(s["moms"])]>>)

\* The texts of a MoM: title, summary, decisions, and the action, owner and due
\* date of its action items.
MomTexts(m) ==
  LET ds == Get(m, "decisions", <<>>)
      as == Get(m, "action_items", <<>>)
  IN ({Get(m, "title", <<>>), Get(m, "summary", <<>>)}
        \cup {ds[i] : i \in 1..Len(ds)}
        \cup {Get(as[i], k, <<>>) : i \in 1..Len(as), k \in {"action", "owner", "due_date"}})
       \ {<<>>}

\* The texts that leave the program in one invocation: the returned text and the
\* text fields of every request or message sent.
OutTexts(r, calls) ==
  {r.text}
    \cup UNION {{calls[i][f] : f \in {"summary", "description", "text", "subject", "body"}
                                      \cap DOMAIN calls[i]} : i \in 1..Len(calls)}

\* The texts of the earlier MoM records of s that the latest MoM does not hold.
StaleTexts(s) ==
  {t \in UNION {MomTexts(s["moms"][i]["mom"]) : i \in 1..(Len(s["moms"]) - 1)} :
     \A u \in MomTexts(LatestMom(s)) : ~Contains(Lower(u), Lower(t))}

\* C13: on a session with two or more ingested MoMs, the result and the external
\* payload of every consumer are those it gives on a session holding the last
\* MoM record alone, and no title, summary, decision or action-item text that
\* only an earlier record holds appears in the result or in a payload.
C13_LatestMomOnly ==
  (call.op \in Consumers /\ Len(Moms(session)) >= 2) =>
    /\ Result(ret, io) = Invoke(call, OnlyLatest(session), env)
    /\ \A t \in StaleTexts(session) :
         \A out \in OutTexts(ret, io) : ~Contains(Lower(out), Lower(t))

\* The chat executor posted on a session whose two MoM records differ.
C13_Witness ==
  /\ call.op = "send_to_slack"
  /\ Len(Moms(session)) = 2
  /\ StaleTexts(session) # {}
  /\ io # <<>>
  /\ ret.tag = "str"

\* C14: an invocation of fetch_and_process_url that does not succeed (fetch
\* error or non-success status, empty content, failed model call, MoM reply that
\* is no JSON) leaves the session exactly as it was; and in every state
\* `summaries` and `moms` have the same length and their i-th records carry the
\* same url.
C14_IngestionAllOrNothing ==
  /\ [](/\ Len(Summaries(session)) = Len(Moms(session))
        /\ \A i \in 1..Len(Moms(session)) :
             Summaries(session)[i]["url"] = Moms(session)[i]["url"])
  /\ [][(call'.op = "fetch_and_process_url" /\ ~FetchSucceeded(call', ret'))
          => session' = session]_vars

\* An ingestion whose MoM reply was no JSON has returned on a session that holds
\* one ingested pair.
C14_Witness ==
  /\ call.op = "fetch_and_process_url"
  /\ call.in.gen2 = "text"
  /\ ret = Str(<<DecodeErrorMsg>>)
  /\ Len(Moms(session)) = 1
  /\ Len(Summaries(session)) = 1

ScheduleConfigured(e) ==
  Truthy(Environ(e, "SENDER_EMAIL")) /\ Truthy(Environ(e, "SENDER_PASSWORD"))

\* The classifier's answer on the session holds the section.
Suggests(s, hdr) == HasToken(analyze_mom_for_actions(s).text, hdr)

\* C15: with a latest MoM and valid configuration, if analyze_mom_for_actions
\* lists an item under its schedule section then schedule_call on the same
\* session attempts an invite delivery, and if it lists an item under its ticket
\* section then create_jira_ticket on the same session issues a POST.
C15_SuggestionsActionable ==
  /\ (call.op = "schedule_call" /\ HasMoms(session) /\ ScheduleConfigured(env)
        /\ Suggests(session, ScheduleSection)) =>
       (io # <<>> /\ io[1].kind = "SMTP")
  /\ (call.op = "create_jira_ticket" /\ HasMoms(session) /\ JiraConfigured(env)
        /\ Suggests(session, JiraSection)) =>
       (io # <<>> /\ io[1].kind = "POST")

====
